---- MODULE Spec2Model ----
(***************************************************************************)
(* Crudify: a scaffolding generator (src/src/main.rs).  The model covers   *)
(* field validation, template rendering, the per-file dynamic fragments,  *)
(* the patch of the aggregator file sequelize.ts, and the run of main.     *)
(*                                                                         *)
(* Text is modelled as a sequence of tokens.  A token is a piece of text   *)
(* that every pattern of the program either matches whole or not at all:   *)
(* single characters where the program looks at characters (whitespace,   *)
(* brackets, comma), whole words elsewhere.                                *)
(***************************************************************************)
EXTENDS Integers, Sequences, FiniteSets, TLC

(***************************************************************************)
(* Bounds of the model.                                                    *)
(***************************************************************************)
MaxEntries == 2
MaxRuns == 2
MaxChunks == 3
MaxProps == 3
MaxAttrs == 2

(***************************************************************************)
(* Program constants.                                                      *)
(***************************************************************************)
DB_TYPES == {"INTEGER", "BIGINT", "FLOAT", "REAL", "DOUBLE", "DECIMAL", "STRING",
             "TEXT", "BOOLEAN", "DATE", "DATEONLY", "TIME", "UUID", "JSON"}

DB_ATTR == {"@PrimaryKey", "@AutoIncrement", "@Unique", "@Index", "@CreatedAt",
            "@UpdatedAt", "@DeletedAt", "@ForeignKey", "@BelongsTo", "@HasMany",
            "@HasOne", "@DefaultScope", "@Scopes", "@AllowNull", "@Comment",
            "@Default", "@Length", "@References"}

JS_TYPES == {"number", "string", "boolean", "float", "double", "Date", "object",
             "function", "undefined", "symbol", "null"}

NAME == "Example_model_name"
NAME_PLURAL == "Example_model_name_plural"

\* str::to_lowercase on the strings the program lowers.
to_lowercase(s) ==
    CASE s = "Example_model_name" -> "example_model_name"
      [] s = "Example_model_name_plural" -> "example_model_name_plural"
      [] OTHER -> s

\* str::to_uppercase on the storage types a declaration may carry.
to_uppercase(s) ==
    CASE s = "integer" -> "INTEGER"
      [] s = "string" -> "STRING"
      [] OTHER -> s

(***************************************************************************)
(* Generic text helpers.                                                   *)
(***************************************************************************)
Whitespace == {" ", "\t", "\n"}

\* pat occurs in text at position i
OccursAt(text, pat, i) ==
    /\ i >= 1
    /\ i + Len(pat) - 1 <= Len(text)
    /\ \A k \in 1..Len(pat) : text[i + k - 1] = pat[k]

\* str::contains with a non-empty pattern
Contains(text, pat) == \E i \in 1..Len(text) : OccursAt(text, pat, i)

RECURSIVE ReplaceFrom(_, _, _, _)
ReplaceFrom(text, pat, to, i) ==
    IF i > Len(text) THEN <<>>
    ELSE IF OccursAt(text, pat, i)
         THEN to \o ReplaceFrom(text, pat, to, i + Len(pat))
         ELSE <<text[i]>> \o ReplaceFrom(text, pat, to, i + 1)

\* mutant of Replace: str::replacen(pat, to, 1), the first occurrence only
ReplaceFirst(text, pat, to) ==
    LET hits == {i \in 1..Len(text) : OccursAt(text, pat, i)}
        at == CHOOSE i \in hits : \A k \in hits : i <= k
    IN  IF hits = {} THEN text
        ELSE SubSeq(text, 1, at - 1) \o to \o SubSeq(text, at + Len(pat), Len(text))

\* str::replace: every non-overlapping occurrence, left to right
Replace(text, pat, to) == ReplaceFrom(text, pat, to, 1)

RECURSIVE SplitFrom(_, _, _, _)
SplitFrom(text, sep, i, piece) ==
    IF i > Len(text) THEN <<piece>>
    ELSE IF OccursAt(text, sep, i)
         THEN <<piece>> \o SplitFrom(text, sep, i + Len(sep), <<>>)
         ELSE SplitFrom(text, sep, i + 1, Append(piece, text[i]))

\* str::split(sep).collect()
Split(text, sep) == SplitFrom(text, sep, 1, <<>>)

RECURSIVE Join(_, _)
\* [..].join(sep)
Join(pieces, sep) ==
    IF pieces = <<>> THEN <<>>
    ELSE IF Len(pieces) = 1 THEN pieces[1]
    ELSE pieces[1] \o sep \o Join(Tail(pieces), sep)

RECURSIVE Flatten(_)
Flatten(chunks) ==
    IF chunks = <<>> THEN <<>> ELSE chunks[1] \o Flatten(Tail(chunks))

(***************************************************************************)
(* update_sequelize: the patch of the aggregator file sequelize.ts.        *)
(***************************************************************************)
\* format!("import {{ {} }} from \"@infrastructure/models/{}Model\";\n", ..)
\* as two tokens: the line and its newline.  ImportTail is the line without
\* its first word.
ImportTail == " { " \o NAME \o " } from \"@infrastructure/models/"
              \o to_lowercase(NAME) \o "Model\";"
ImportHead == "import" \o ImportTail
import == <<ImportHead, "\n">>

\* the tokens whose text has NAME as a substring
NameBearing == {NAME, NAME_PLURAL, ImportHead, ImportTail}

\* models_content.contains(NAME)
ContainsName(text) == \E i \in 1..Len(text) : text[i] \in NameBearing

\* first position at or after i that holds no whitespace (Len + 1 if none)
SkipWs(text, i) ==
    LET stops == {j \in i..Len(text) : text[j] \notin Whitespace}
    IN  IF stops = {} THEN Len(text) + 1
        ELSE CHOOSE j \in stops : \A k \in stops : j <= k

\* The regex  models:\s*\[\s*(.*?)\s*]  tried at position i.  The greedy \s*
\* take the whole runs of whitespace, the lazy group ends before the
\* whitespace that precedes the first "]", and "." matches no newline.
MatchAt(text, i) ==
    LET open == SkipWs(text, i + 1)
        from == SkipWs(text, open + 1)
        closes == {m \in from..Len(text) : text[m] = "]"}
        close == CHOOSE m \in closes : \A k \in closes : m <= k
        inner == {e \in from..(close - 1) : text[e] \notin Whitespace}
        last == IF inner = {} THEN from - 1
                ELSE CHOOSE e \in inner : \A k \in inner : e >= k
    IN  IF /\ i >= 1 /\ i <= Len(text) /\ text[i] = "models:"
           /\ open <= Len(text) /\ text[open] = "["
           /\ closes # {}
           /\ \A k \in from..last : text[k] # "\n"
        THEN [ok |-> TRUE, start |-> i, end |-> close,
              group |-> SubSeq(text, from, last)]
        ELSE [ok |-> FALSE, start |-> 0, end |-> 0, group |-> <<>>]

\* Regex::captures: the leftmost match
captures(text) ==
    LET hits == {i \in 1..Len(text) : MatchAt(text, i).ok}
    IN  IF hits = {} THEN [ok |-> FALSE, start |-> 0, end |-> 0, group |-> <<>>]
        ELSE MatchAt(text, CHOOSE i \in hits : \A k \in hits : i <= k)

\* tokens made of the characters [_0-9A-Za-z] only, and the tokens that
\* start with such characters and go on with others
WordTokens == {NAME, NAME_PLURAL, "User"}
WordLed(tok) ==
    CASE tok = "models:" -> <<":">>
      [] tok = ImportHead -> <<ImportTail>>
      [] OTHER -> <<>>

RECURSIVE ExpandFrom(_, _, _)
\* Captures::expand, as Regex::replace applies it to a replacement String:
\* "$" and the longest run of [_0-9A-Za-z] after it name a group; "$0" is
\* the whole match, a name that is no group of the regex expands to nothing.
ExpandFrom(rep, whole, i) ==
    IF i > Len(rep) THEN <<>>
    ELSE IF rep[i] # "$0" THEN <<rep[i]>> \o ExpandFrom(rep, whole, i + 1)
    ELSE LET stops == {j \in (i + 1)..Len(rep) : rep[j] \notin WordTokens}
             next == IF stops = {} THEN Len(rep) + 1
                     ELSE CHOOSE j \in stops : \A k \in stops : j <= k
             led == IF next <= Len(rep) THEN WordLed(rep[next]) ELSE <<>>
         IN  IF led # <<>> THEN led \o ExpandFrom(rep, whole, next + 1)
             ELSE IF next = i + 1 THEN whole \o ExpandFrom(rep, whole, next)
             ELSE ExpandFrom(rep, whole, next)

Expand(rep, whole) == ExpandFrom(rep, whole, 1)

\* Regex::replace: the first match replaced by the expanded replacement
RegexReplace(text, m, rep) ==
    SubSeq(text, 1, m.start - 1)
        \o Expand(rep, SubSeq(text, m.start, m.end))
        \o SubSeq(text, m.end + 1, Len(text))

\* lines 304-307: the import step
ImportStep(file_content) ==
    IF ~Contains(file_content, import) THEN import \o file_content
    ELSE file_content

\* lines 314-318: the regenerated list literal
updated_models_content(models_content) ==
    IF models_content = <<>> THEN <<"models:", " ", "[", NAME, "]">>
    ELSE <<"models:", " ", "[">>
            \o Join(Split(models_content, <<",", " ">>) \o <<(<<NAME>>)>>, <<",", " ">>)
            \o <<"]">>

\* lines 310-321: the registration step
RegistrationStep(file_content) ==
    LET m == captures(file_content)
    IN  IF m.ok /\ ~ContainsName(m.group)
        THEN RegexReplace(file_content, m, updated_models_content(m.group))
        ELSE file_content

\* the text update_sequelize writes back for the text it read
PatchedText(file_content) == RegistrationStep(ImportStep(file_content))


(***************************************************************************)
(* Field::validate.  A declaration is [attr, name, db_type, js_type]; its  *)
(* name is given as the sequence of its pieces (blanks and words), so that *)
(* trim() is computed and not assumed.                                     *)
(***************************************************************************)
RECURSIVE Concat(_)
\* the string a sequence of pieces spells
Concat(pieces) ==
    IF pieces = <<>> THEN "" ELSE pieces[1] \o Concat(Tail(pieces))

\* str::trim: whitespace dropped at both ends
trim(pieces) ==
    LET solid == {i \in 1..Len(pieces) : pieces[i] \notin Whitespace}
    IN  IF solid = {} THEN <<>>
        ELSE SubSeq(pieces,
                    CHOOSE i \in solid : \A k \in solid : i <= k,
                    CHOOSE i \in solid : \A k \in solid : i >= k)

NoField == [attr |-> <<>>, name |-> "", db_type |-> "", js_type |-> ""]

\* Field::new
new(attr, name, db_type, js_type) ==
    [attr |-> attr, name |-> Concat(name), db_type |-> db_type, js_type |-> js_type]

Err(message) == [ok |-> FALSE, err |-> message, field |-> NoField]
Ok(field) == [ok |-> TRUE, err |-> "", field |-> field]

\* mutant of attr_error: the loop does not return at the first bad
\* attribute, the last one is named
attr_error_last(attr) ==
    LET bad == {i \in 1..Len(attr) : attr[i] \notin DB_ATTR}
    IN  "Invalid attribute: " \o attr[CHOOSE i \in bad : \A k \in bad : i >= k]

\* lines 57-61: the error of the first attribute that is not in DB_ATTR
attr_error(attr) ==
    LET bad == {i \in 1..Len(attr) : attr[i] \notin DB_ATTR}
    IN  "Invalid attribute: " \o attr[CHOOSE i \in bad : \A k \in bad : i <= k]

\* the order of the four checks of Field::validate
validate_checks(attr, name, db_type, js_type) ==
    IF trim(name) = <<>> THEN Err("Field name cannot be empty")
    ELSE IF db_type \notin DB_TYPES THEN Err("Invalid database type")
    ELSE IF js_type \notin JS_TYPES THEN Err("Invalid JavaScript type")
    ELSE IF \E i \in 1..Len(attr) : attr[i] \notin DB_ATTR THEN Err(attr_error(attr))
    ELSE Ok(new(attr, name, db_type, js_type))

validate(d) == validate_checks(d.attr, d.name, d.db_type, d.js_type)

(***************************************************************************)
(* copy_template.  A placeholder is the token sequence "{", word, "}" or   *)
(* "{", word, "_PLURAL", "}".                                              *)
(***************************************************************************)
PH_NAME_UPPER == <<"{", "NAME_UPPER", "}">>
PH_NAME_UPPER_PLURAL == <<"{", "NAME_UPPER", "_PLURAL", "}">>
PH_NAME_LOWER == <<"{", "NAME_LOWER", "}">>
PH_NAME_LOWER_PLURAL == <<"{", "NAME_LOWER", "_PLURAL", "}">>

\* lines 75-79: the four chained replacements
copy_template(text) ==
    Replace(
      Replace(
        Replace(
          Replace(text, PH_NAME_UPPER, <<NAME>>),
          PH_NAME_UPPER_PLURAL, <<NAME_PLURAL>>),
        PH_NAME_LOWER, <<to_lowercase(NAME)>>),
      PH_NAME_LOWER_PLURAL, <<to_lowercase(NAME_PLURAL)>>)

(***************************************************************************)
(* The dynamic fragments.  A fragment is the sequence of what the loop     *)
(* pushed: one token per tab, per newline and per formatted entry.         *)
(***************************************************************************)
Tabs(n) == [i \in 1..n |-> "\t"]

\* format!("{}: request.{},", property.name, property.name)
add_entry(name) == name \o ": request." \o name \o ","
\* format!("{}.{} = request.{};", name_lower, property.name, property.name)
update_entry(name) ==
    to_lowercase(NAME) \o "." \o name \o " = request." \o name \o ";"
\* format!("{}: {};", property.name, property.js_type)
type_entry(property) == property.name \o ": " \o property.js_type \o ";"
\* format!("{}: req.body.{},", property.name, property.name)
body_entry(name) == name \o ": req.body." \o name \o ","

\* lines 127-129: the field the use-case loop skips
use_case_skips(property) == property.name = "id"

RECURSIVE use_case_loop(_, _, _)
\* lines 126-142, from the field at position i (index = i - 1) on
use_case_loop(properties, i, acc) ==
    IF i > Len(properties) THEN acc
    ELSE IF use_case_skips(properties[i]) THEN use_case_loop(properties, i + 1, acc)
    ELSE LET name == properties[i].name
             a1 == IF Len(acc.add) > 0 THEN acc.add \o Tabs(3) ELSE acc.add
             u1 == IF Len(acc.update) > 0 THEN acc.update \o Tabs(2) ELSE acc.update
             a2 == Append(a1, add_entry(name))
             u2 == Append(u1, update_entry(name))
             a3 == IF i # Len(properties) THEN a2 \o <<"\n", "\n">> \o <<"\n">> ELSE a2
         IN  use_case_loop(properties, i + 1, [add |-> a3, update |-> u2])

dynamic_use_case(properties) ==
    use_case_loop(properties, 1, [add |-> <<>>, update |-> <<>>])

\* mutant of details_entry: the test of the name is missing
details_entry_unfiltered(property) == <<property.name \o ": " \o property.js_type \o ";">>

\* lines 180-182: what the utils loop pushes to the details for one field
details_entry(property) ==
    IF property.name # "id" THEN <<type_entry(property)>> ELSE <<>>

RECURSIVE utils_loop(_, _, _)
\* lines 171-190
utils_loop(properties, i, acc) ==
    IF i > Len(properties) THEN acc
    ELSE LET p == properties[i]
             a1 == IF Len(acc.attributes) > 0 THEN acc.attributes \o Tabs(1)
                   ELSE acc.attributes
             d1 == IF Len(acc.details) > 0 THEN acc.details \o Tabs(1)
                   ELSE acc.details
             a2 == Append(a1, type_entry(p))
             d2 == d1 \o details_entry(p)
             a3 == IF i # Len(properties) THEN Append(a2, "\n") ELSE a2
             d3 == IF i # Len(properties) /\ Len(d2) > 0 THEN Append(d2, "\n") ELSE d2
         IN  utils_loop(properties, i + 1, [attributes |-> a3, details |-> d3])

dynamic_utils(properties) ==
    utils_loop(properties, 1, [attributes |-> <<>>, details |-> <<>>])

\* lines 278-280: what the controllers loop pushes for one field
controller_entry(property) ==
    IF property.name # "id" THEN <<body_entry(property.name)>> ELSE <<>>

RECURSIVE controllers_loop(_, _, _)
\* lines 272-287
controllers_loop(properties, i, acc) ==
    IF i > Len(properties) THEN acc
    ELSE LET d1 == IF Len(acc) > 0 THEN acc \o Tabs(4) ELSE acc
             d2 == d1 \o controller_entry(properties[i])
             d3 == IF i # Len(properties) /\ Len(d2) > 0 THEN Append(d2, "\n") ELSE d2
         IN  controllers_loop(properties, i + 1, d3)

dynamic_controllers(properties) == controllers_loop(properties, 1, <<>>)

RECURSIVE attr_lines(_)
\* lines 225-227: format!("\t{}\n", attribute) for each attribute
attr_lines(attr) ==
    IF attr = <<>> THEN <<>>
    ELSE <<"\t", attr[1], "\n">> \o attr_lines(Tail(attr))

\* the two lines of format!("\t@Column(DataType.{})\n\t{}!: {};", ..)
column_line(item) == "@Column(DataType." \o to_uppercase(item.db_type) \o ")"
member_line(item) == item.name \o "!: " \o item.js_type \o ";"

RECURSIVE model_loop(_, _, _)
\* lines 224-237
model_loop(properties, i, acc) ==
    IF i > Len(properties) THEN acc
    ELSE LET item == properties[i]
             p1 == acc \o attr_lines(item.attr)
             p2 == p1 \o <<"\t", column_line(item), "\n", "\t", member_line(item)>>
             p3 == IF i < Len(properties) THEN p2 \o <<"\n", "\n">> ELSE p2
         IN  model_loop(properties, i + 1, p3)

dynamic_model(properties) == model_loop(properties, 1, <<>>)


(***************************************************************************)
(* State.                                                                  *)
(***************************************************************************)
VARIABLES
    decls,          \* the field declarations main validates, in order
    next_field,     \* position in decls of the declaration validated next
    properties,     \* main's properties: the Fields validated so far
    pc,             \* where main is: "fields", "dirs", "done", "failed", "exit"
    exit_code,      \* the code of process::exit, 0 while none was called
    step,           \* position in directories of the (dir, subdir) handled next
    dirs,           \* the directories that exist
    files,          \* the generated files: [exists, text] by path
    dynamic,        \* the dynamic_* strings of the implement_* functions
    sequelize_ts,   \* the aggregator file config/sequelize.ts: [exists, text]
    patch_log,      \* per call of update_sequelize: [ret, before, after]
    decl,           \* the arguments of one call of Field::validate
    validated,      \* << >>, or the result of that call
    template,       \* the text of one template file
    rendered        \* << >>, or what copy_template returned for it

main_vars == <<decls, next_field, properties, pc, exit_code, step, dirs, files,
               dynamic>>
patch_vars == <<sequelize_ts, patch_log>>
validate_vars == <<decl, validated>>
template_vars == <<template, rendered>>
vars == <<main_vars, patch_vars, validate_vars, template_vars>>

SeqsUpTo(S, n) == UNION {[1..k -> S] : k \in 0..n}

(***************************************************************************)
(* Inputs.                                                                 *)
(***************************************************************************)
\* lines 346-350, 355-359, 364-368: the declarations of main
ID_DECL == [attr |-> <<"@PrimaryKey", "@AutoIncrement">>, name |-> <<"id">>,
            db_type |-> "INTEGER", js_type |-> "number"]
CONTENT_DECL == [attr |-> <<>>, name |-> <<"content">>,
                 db_type |-> "STRING", js_type |-> "string"]
NAME_DECL == [attr |-> <<>>, name |-> <<"name">>,
              db_type |-> "STRING", js_type |-> "string"]
\* declarations that fail validation
BAD_ATTR_DECL == [attr |-> <<"@Unique", "@Bad">>, name |-> <<"age">>,
                  db_type |-> "INTEGER", js_type |-> "number"]
BLANK_NAME_DECL == [attr |-> <<>>, name |-> <<" ">>,
                    db_type |-> "STRING", js_type |-> "string"]

DeclPool == {ID_DECL, CONTENT_DECL, NAME_DECL, BAD_ATTR_DECL, BLANK_NAME_DECL}

\* the arguments tried on Field::validate
AttrPool == {"@PrimaryKey", "@Unique", "@Bad", "@Worse"}
NamePool == {<<>>, <<" ">>, <<"\t", " ">>, <<"id">>, <<" ", "name", " ">>}
DbTypePool == {"INTEGER", "STRING", "VARCHAR"}
JsTypePool == {"number", "int"}
DeclSpace == [attr : SeqsUpTo(AttrPool, MaxAttrs), name : NamePool,
              db_type : DbTypePool, js_type : JsTypePool]

\* template texts: up to MaxChunks pieces, whole placeholders and debris
TemplateChunks == {PH_NAME_UPPER, PH_NAME_UPPER_PLURAL, PH_NAME_LOWER,
                   PH_NAME_LOWER_PLURAL, <<"{", "TOKEN", "}">>, <<"text">>,
                   <<"{">>, <<"}">>, <<"NAME_UPPER">>, <<"_PLURAL", "}">>}
Templates == {Flatten(c) : c \in SeqsUpTo(TemplateChunks, MaxChunks)}

\* aggregator texts: an optional head, an optional list literal with up to
\* MaxEntries entries, an optional tail
EntryPool == {"User", NAME, NAME_PLURAL, "$0"}
Separators == {<<",", " ">>, <<",">>, <<",", "\n">>}
Paddings == {<<>>, <<" ">>, <<"\n">>}
Heads == {<<>>, import, <<ImportHead>>, <<"User", "\n">>,
          <<"models:", "[", "User", "\n">>}
Tails == {<<>>, <<"\n">>, <<"\n", "models:", " ", "[", "]">>}
ListLiterals ==
    {<<"models:">> \o gap \o <<"[">> \o pad
        \o Join([i \in 1..Len(e) |-> <<e[i]>>], sep) \o pad \o <<"]">> :
     gap \in {<<>>, <<" ">>}, pad \in Paddings, sep \in Separators,
     e \in SeqsUpTo(EntryPool, MaxEntries)}
AggregatorTexts == {h \o l \o t : h \in Heads, l \in ListLiterals \cup {<<>>}, t \in Tails}


(***************************************************************************)
(* The files and templates of a run.                                       *)
(***************************************************************************)
\* lines 336-343: the (dir, subdir) pairs in the order main visits them
directories == <<
    <<"core", "interfaces">>, <<"core", "use_cases">>, <<"core", "utils">>,
    <<"presentation", "controllers">>,
    <<"infrastructure", "config">>, <<"infrastructure", "models">>,
    <<"infrastructure", "repositories">>, <<"infrastructure", "routes">> >>

\* main.join(dir).join(subdir)
DirPath(pair) == pair[1] \o "/" \o pair[2]
subdir == directories[step][2]
current_dir == DirPath(directories[step])

InterfaceFile == "core/interfaces/I" \o NAME \o "Repository.ts"
UseCaseDir == "core/use_cases/" \o NAME
AddFile == UseCaseDir \o "/Add" \o NAME \o ".ts"
GetsFile == UseCaseDir \o "/Get" \o NAME_PLURAL \o ".ts"
DeleteFile == UseCaseDir \o "/Delete" \o NAME \o ".ts"
UpdateFile == UseCaseDir \o "/Update" \o NAME \o ".ts"
UtilsDir == "core/utils/" \o NAME
RequestFile == UtilsDir \o "/Request.ts"
TypesFile == UtilsDir \o "/types.ts"
RepositoryFile == "infrastructure/repositories/" \o to_lowercase(NAME) \o "Repository.ts"
ModelFile == "infrastructure/models/" \o to_lowercase(NAME) \o "Model.ts"
RoutesFile == "infrastructure/routes/" \o to_lowercase(NAME) \o "Routes.ts"
ControllersFile == "presentation/controllers/" \o to_lowercase(NAME) \o "Controllers.ts"

FileNames == {InterfaceFile, AddFile, GetsFile, DeleteFile, UpdateFile, RequestFile,
              TypesFile, RepositoryFile, ModelFile, RoutesFile, ControllersFile}

\* the texts behind the template paths of the environment
PLAIN_TEMPLATE == <<"class ", "{", "NAME_UPPER", "}", "\n", "{", "NAME_LOWER", "_PLURAL", "}">>
ADD_USE_CASE_TEMPLATE == <<"{", "NAME_UPPER", "}", "\n", "{DYNAMIC_ADD_PROPERTIES}">>
UPDATE_USE_CASE_TEMPLATE == <<"{", "NAME_LOWER", "}", "\n", "{DYNAMIC_UPDATE_PROPERTIES}">>
TYPES_UTILS_TEMPLATE == <<"{DYNAMIC_PROPERTIES_ATTRIBUTES}", "\n", "{", "NAME_UPPER", "}",
                          "\n", "{DYNAMIC_PROPERTIES_DETAILS}">>
MODEL_TEMPLATE == <<"{", "NAME_UPPER", "}", "\n", "{DYNAMIC_PROPERTIES}">>
CONTROLLERS_TEMPLATE == <<"{", "NAME_UPPER", "_PLURAL", "}", "\n", "{DYNAMIC_PROPERTIES_DETAILS}">>

NoFile == [exists |-> FALSE, text |-> <<>>]
\* File::create then write_all
Written(text) == [exists |-> TRUE, text |-> text]

NoDynamic == [add |-> <<>>, update |-> <<>>, attributes |-> <<>>, details |-> <<>>,
              controllers |-> <<>>, model |-> <<>>]

(***************************************************************************)
(* Initial states: one per specification.                                  *)
(***************************************************************************)
MainIdle ==
    /\ decls = <<>> /\ next_field = 1 /\ properties = <<>> /\ pc = "idle"
    /\ exit_code = 0 /\ step = 1 /\ dirs = {} /\ files = [f \in FileNames |-> NoFile]
    /\ dynamic = NoDynamic
PatchIdle == sequelize_ts = NoFile /\ patch_log = <<>>
ValidateIdle == decl = ID_DECL /\ validated = <<>>
TemplateIdle == template = <<>> /\ rendered = <<>>

\* a run of main: the declarations and the aggregator file are its inputs
Init ==
    /\ decls \in SeqsUpTo(DeclPool, MaxProps)
    /\ next_field = 1 /\ properties = <<>> /\ pc = "fields" /\ exit_code = 0
    /\ step = 1 /\ dirs = {} /\ files = [f \in FileNames |-> NoFile]
    /\ dynamic = NoDynamic
    /\ sequelize_ts \in {NoFile, Written(<<>>),
                         Written(<<"models:", " ", "[", "User", "]", "\n">>)}
    /\ patch_log = <<>>
    /\ ValidateIdle /\ TemplateIdle

InitPatch ==
    /\ sequelize_ts \in {NoFile} \cup {Written(t) : t \in AggregatorTexts}
    /\ patch_log = <<>>
    /\ MainIdle /\ ValidateIdle /\ TemplateIdle

InitValidate ==
    /\ decl \in DeclSpace /\ validated = <<>>
    /\ MainIdle /\ PatchIdle /\ TemplateIdle

InitTemplate ==
    /\ template \in Templates /\ rendered = <<>>
    /\ MainIdle /\ PatchIdle /\ ValidateIdle

(***************************************************************************)
(* Actions.                                                                *)
(***************************************************************************)
\* mutant of on_field_error: the error is printed and the run goes on
on_field_error_goes_on == [pc |-> "fields", exit_code |-> 0]

\* lines 351-354: where main goes when a declaration fails validation
on_field_error == [pc |-> "exit", exit_code |-> 1]

\* lines 345-373: one element of the vec! of validated fields
main_field ==
    /\ pc = "fields" /\ next_field <= Len(decls)
    /\ LET r == validate(decls[next_field])
       IN  IF r.ok
           THEN /\ properties' = Append(properties, r.field)
                /\ UNCHANGED <<pc, exit_code>>
           ELSE /\ pc' = on_field_error.pc
                /\ exit_code' = on_field_error.exit_code
                /\ UNCHANGED properties
    /\ next_field' = next_field + 1
    /\ UNCHANGED <<decls, step, dirs, files, dynamic>>
    /\ UNCHANGED <<patch_vars, validate_vars, template_vars>>

\* line 373 to 375: the vec! is complete, main enters the loop
main_loop ==
    /\ pc = "fields" /\ next_field > Len(decls)
    /\ pc' = "dirs"
    /\ UNCHANGED <<decls, next_field, properties, exit_code, step, dirs, files, dynamic>>
    /\ UNCHANGED <<patch_vars, validate_vars, template_vars>>

\* lines 378-382 of one iteration, and the move to the next one
Iteration(sub, made) ==
    /\ pc = "dirs" /\ subdir = sub
    /\ dirs' = dirs \cup {current_dir} \cup made
    /\ step' = step + 1
    /\ UNCHANGED <<decls, next_field, properties, exit_code>>
    /\ UNCHANGED <<validate_vars, template_vars>>

Continue == pc' = IF step = Len(directories) THEN "done" ELSE "dirs"

implement_interface ==
    /\ Iteration("interfaces", {}) /\ Continue
    /\ files' = [files EXCEPT ![InterfaceFile] = Written(copy_template(PLAIN_TEMPLATE))]
    /\ UNCHANGED <<dynamic, patch_vars>>

implement_use_case ==
    /\ Iteration("use_cases", {UseCaseDir}) /\ Continue
    /\ LET d == dynamic_use_case(properties)
       IN  /\ dynamic' = [dynamic EXCEPT !.add = d.add, !.update = d.update]
           /\ files' = [files EXCEPT
                ![AddFile] = Written(Replace(copy_template(ADD_USE_CASE_TEMPLATE),
                                             <<"{DYNAMIC_ADD_PROPERTIES}">>, d.add)),
                ![GetsFile] = Written(copy_template(PLAIN_TEMPLATE)),
                ![DeleteFile] = Written(copy_template(PLAIN_TEMPLATE)),
                ![UpdateFile] = Written(Replace(copy_template(UPDATE_USE_CASE_TEMPLATE),
                                                <<"{DYNAMIC_UPDATE_PROPERTIES}">>, d.update))]
    /\ UNCHANGED patch_vars

implement_utils ==
    /\ Iteration("utils", {UtilsDir}) /\ Continue
    /\ LET d == dynamic_utils(properties)
       IN  /\ dynamic' = [dynamic EXCEPT !.attributes = d.attributes, !.details = d.details]
           /\ files' = [files EXCEPT
                ![RequestFile] = Written(copy_template(PLAIN_TEMPLATE)),
                ![TypesFile] = Written(
                    Replace(Replace(copy_template(TYPES_UTILS_TEMPLATE),
                                    <<"{DYNAMIC_PROPERTIES_ATTRIBUTES}">>, d.attributes),
                            <<"{DYNAMIC_PROPERTIES_DETAILS}">>, d.details))]
    /\ UNCHANGED patch_vars

implement_controllers ==
    /\ Iteration("controllers", {}) /\ Continue
    /\ LET d == dynamic_controllers(properties)
       IN  /\ dynamic' = [dynamic EXCEPT !.controllers = d]
           /\ files' = [files EXCEPT
                ![ControllersFile] = Written(Replace(copy_template(CONTROLLERS_TEMPLATE),
                                                     <<"{DYNAMIC_PROPERTIES_DETAILS}">>, d))]
    /\ UNCHANGED patch_vars

\* lines 296-329: read, patch, write back; Err when the file cannot be opened
update_sequelize ==
    IF sequelize_ts.exists
    THEN /\ sequelize_ts' = Written(PatchedText(sequelize_ts.text))
         /\ patch_log' = Append(patch_log,
                [ret |-> "Ok", before |-> sequelize_ts.text,
                 after |-> PatchedText(sequelize_ts.text)])
    ELSE /\ sequelize_ts' = sequelize_ts
         /\ patch_log' = Append(patch_log,
                [ret |-> "Err", before |-> <<>>, after |-> <<>>])

\* lines 408-410: the config iteration; the ? returns the Err from main
main_config ==
    /\ Iteration("config", {})
    /\ update_sequelize
    /\ pc' = IF sequelize_ts.exists THEN "dirs" ELSE "failed"
    /\ UNCHANGED <<files, dynamic>>

implement_model ==
    /\ Iteration("models", {}) /\ Continue
    /\ LET d == dynamic_model(properties)
       IN  /\ dynamic' = [dynamic EXCEPT !.model = d]
           /\ files' = [files EXCEPT
                ![ModelFile] = Written(Replace(copy_template(MODEL_TEMPLATE),
                                               <<"{DYNAMIC_PROPERTIES}">>, d))]
    /\ UNCHANGED patch_vars

implement_repository ==
    /\ Iteration("repositories", {}) /\ Continue
    /\ files' = [files EXCEPT ![RepositoryFile] = Written(copy_template(PLAIN_TEMPLATE))]
    /\ UNCHANGED <<dynamic, patch_vars>>

implement_routes ==
    /\ Iteration("routes", {}) /\ Continue
    /\ files' = [files EXCEPT ![RoutesFile] = Written(copy_template(PLAIN_TEMPLATE))]
    /\ UNCHANGED <<dynamic, patch_vars>>

\* update_sequelize applied to the aggregator file once more
patch_again ==
    /\ Len(patch_log) < MaxRuns
    /\ update_sequelize
    /\ UNCHANGED <<main_vars, validate_vars, template_vars>>

\* one call of Field::validate
call_validate ==
    /\ validated = <<>>
    /\ validated' = <<validate(decl)>>
    /\ UNCHANGED <<decl, main_vars, patch_vars, template_vars>>

\* one call of copy_template
call_copy_template ==
    /\ rendered = <<>>
    /\ rendered' = <<copy_template(template)>>
    /\ UNCHANGED <<template, main_vars, patch_vars, validate_vars>>

Next ==
    \/ main_field
    \/ main_loop
    \/ implement_interface
    \/ implement_use_case
    \/ implement_utils
    \/ implement_controllers
    \/ main_config
    \/ implement_model
    \/ implement_repository
    \/ implement_routes

Spec == Init /\ [][Next]_vars

NextPatch == patch_again
SpecPatch == InitPatch /\ [][NextPatch]_vars

NextValidate == call_validate
SpecValidate == InitValidate /\ [][NextValidate]_vars

NextTemplate == call_copy_template
SpecTemplate == InitTemplate /\ [][NextTemplate]_vars


(***************************************************************************)
(* Properties.                                                             *)
(***************************************************************************)
Range(seq) == {seq[i] : i \in 1..Len(seq)}

RECURSIVE UnindentFrom(_, _)
\* frag without the tabs that indent an entry: a tab is dropped when the run
\* of tabs it is in is followed by a token that is no whitespace
UnindentFrom(frag, i) ==
    IF i > Len(frag) THEN <<>>
    ELSE LET after == {j \in i..Len(frag) : frag[j] # "\t"}
             first == IF after = {} THEN Len(frag) + 1
                      ELSE CHOOSE j \in after : \A k \in after : j <= k
         IN  IF frag[i] = "\t" /\ first <= Len(frag) /\ frag[first] \notin Whitespace
             THEN UnindentFrom(frag, i + 1)
             ELSE <<frag[i]>> \o UnindentFrom(frag, i + 1)

Unindent(frag) == UnindentFrom(frag, 1)

\* the fields of the PropertySet that are not named id, in declaration order
RequestFields == SelectSeq(properties, LAMBDA p : p.name # "id")

\* the entries a list literal holds: its text split at the commas, each
\* piece without the whitespace around it
ListEntries(group) ==
    IF group = <<>> THEN <<>>
    ELSE LET pieces == Split(group, <<",">>)
         IN  [i \in 1..Len(pieces) |-> trim(pieces[i])]

\* C1: applying update_sequelize again leaves the aggregator file exactly as
\* the application before left it.
C1_PatchIdempotent ==
    \A i \in 2..Len(patch_log) :
        patch_log[i].ret = "Ok" => patch_log[i].after = patch_log[i - 1].after

\* C2: when the text holds no registration list the regex matches, the patch
\* fails and the file is as it was: no import line added, nothing written.
C2_NoListFailsUnmodified ==
    \A i \in 1..Len(patch_log) :
        ~captures(patch_log[i].before).ok =>
            patch_log[i].ret = "Err" /\ patch_log[i].after = patch_log[i].before

\* C3: when the text holds a registration list, the patched list is the old
\* entries in order followed by the entity name if the name was no entry, and
\* the old entries if it was one (so the name is an entry of it either way),
\* also when an entry only contains the name as a substring.
C3_RegistrationAppends ==
    \A i \in 1..Len(patch_log) :
        LET before == captures(patch_log[i].before)
            after == captures(patch_log[i].after)
            old == ListEntries(before.group)
            now == ListEntries(after.group)
        IN  (patch_log[i].ret = "Ok" /\ before.ok) =>
                /\ after.ok
                /\ <<NAME>> \in Range(now)
                /\ IF <<NAME>> \in Range(old) THEN now = old
                   ELSE now = Append(old, <<NAME>>)

\* C4: a field named id has no entry in the add, update, type-detail and
\* controller fragments and has one in the attribute block and the
\* type-attribute list; every other field has an entry in all six.
C4_IdOnlyInFullRecord ==
    \A i \in 1..Len(properties) :
        LET p == properties[i]
            request == p.name # "id"
        IN  /\ files[AddFile].exists =>
                /\ (add_entry(p.name) \in Range(dynamic.add)) <=> request
                /\ (update_entry(p.name) \in Range(dynamic.update)) <=> request
            /\ files[TypesFile].exists =>
                /\ (type_entry(p) \in Range(dynamic.details)) <=> request
                /\ type_entry(p) \in Range(dynamic.attributes)
            /\ files[ControllersFile].exists =>
                (body_entry(p.name) \in Range(dynamic.controllers)) <=> request
            /\ files[ModelFile].exists => member_line(p) \in Range(dynamic.model)

C4_Witness ==
    /\ pc = "done" /\ Len(properties) = 3
    /\ properties[2].name = "id" /\ properties[1].name = "content"
    /\ files[ModelFile].exists /\ files[ControllersFile].exists
    /\ "id: number;" \in Range(dynamic.attributes)
    /\ "id: number;" \notin Range(dynamic.details)

\* C5: the add fragment is the entries of the fields not named id, in order,
\* a newline and one blank line between consecutive entries (the next entry
\* may be indented), nothing after the last entry, wherever id sits.
C5_AddFragment ==
    files[AddFile].exists =>
        Unindent(dynamic.add) =
            Join([i \in 1..Len(RequestFields) |-> <<add_entry(RequestFields[i].name)>>],
                 <<"\n", "\n">>)

\* C6 as claimed: a tag outside the enumeration gives the attribute error
\* naming the first such tag, whatever the name and the two types are; an
\* all-valid declaration gives a Field with the attributes in input order.
C6_UnknownAttributeAlways ==
    validated # <<>> =>
        LET r == validated[1]
            bad == {i \in 1..Len(decl.attr) : decl.attr[i] \notin DB_ATTR}
        IN  bad # {} =>
                /\ ~r.ok
                /\ r.err = "Invalid attribute: "
                            \o decl.attr[CHOOSE i \in bad : \A k \in bad : i <= k]

\* C6 amended: when the name is not blank and both types are in their
\* enumerations, a tag outside the attribute enumeration gives the attribute
\* error naming the first such tag, and a declaration with no such tag gives
\* a Field with the attributes in input order.
C6_UnknownAttributeWhenRestValid ==
    validated # <<>> =>
        LET r == validated[1]
            bad == {i \in 1..Len(decl.attr) : decl.attr[i] \notin DB_ATTR}
            rest_valid == /\ \E k \in 1..Len(decl.name) : decl.name[k] \notin Whitespace
                          /\ decl.db_type \in DB_TYPES
                          /\ decl.js_type \in JS_TYPES
        IN  rest_valid =>
                IF bad # {}
                THEN /\ ~r.ok
                     /\ r.err = "Invalid attribute: "
                                 \o decl.attr[CHOOSE i \in bad : \A k \in bad : i <= k]
                ELSE r.ok /\ r.field.attr = decl.attr

C6_Witness ==
    /\ validated # <<>>
    /\ decl.attr = <<"@Bad", "@Worse">>
    /\ validated[1].err = "Invalid attribute: @Bad"

\* C7: in a run in which a declaration fails validation no directory is made,
\* no output file is created or written and the aggregator file is not
\* touched; the run ends at the first failing declaration with exit code 1.
C7_ValidationBeforeIO ==
    LET failing == {i \in 1..Len(decls) : ~validate(decls[i]).ok}
        first == CHOOSE i \in failing : \A k \in failing : i <= k
    IN  failing # {} =>
            /\ dirs = {}
            /\ \A f \in FileNames : ~files[f].exists
            /\ patch_log = <<>>
            /\ pc \in {"fields", "exit"}
            /\ next_field <= first + 1
            /\ (pc = "exit" <=> next_field = first + 1)
            /\ (pc = "exit" => exit_code = 1 /\ Len(properties) = first - 1)

C7_Witness ==
    /\ pc = "exit" /\ exit_code = 1
    /\ Len(decls) = 3 /\ Len(properties) = 1 /\ next_field = 3
    /\ sequelize_ts.exists

RECURSIVE Substitute(_, _)
\* one pass over a template: at each position a placeholder that starts
\* there is replaced by its name form, any other token is copied
Substitute(text, i) ==
    IF i > Len(text) THEN <<>>
    ELSE IF OccursAt(text, PH_NAME_UPPER, i)
         THEN <<"Example_model_name">> \o Substitute(text, i + 3)
    ELSE IF OccursAt(text, PH_NAME_UPPER_PLURAL, i)
         THEN <<"Example_model_name_plural">> \o Substitute(text, i + 4)
    ELSE IF OccursAt(text, PH_NAME_LOWER, i)
         THEN <<"example_model_name">> \o Substitute(text, i + 3)
    ELSE IF OccursAt(text, PH_NAME_LOWER_PLURAL, i)
         THEN <<"example_model_name_plural">> \o Substitute(text, i + 4)
    ELSE <<text[i]>> \o Substitute(text, i + 1)

\* C8: copy_template replaces every occurrence of the four entity-name
\* placeholders by the name form and copies everything else, unknown
\* placeholders included; a template without placeholders comes back as is.
C8_EveryOccurrenceReplaced ==
    rendered # <<>> =>
        /\ rendered[1] = Substitute(template, 1)
        /\ ("{" \notin Range(template) => rendered[1] = template)
        /\ \A ph \in {PH_NAME_UPPER, PH_NAME_UPPER_PLURAL, PH_NAME_LOWER,
                      PH_NAME_LOWER_PLURAL} : ~Contains(rendered[1], ph)

C8_Witness ==
    /\ template = PH_NAME_LOWER \o <<"{", "TOKEN", "}">> \o PH_NAME_LOWER
    /\ rendered = << <<"example_model_name", "{", "TOKEN", "}", "example_model_name">> >>

\* C9: the update fragment is the entries of the fields not named id, in
\* order, one newline between consecutive entries (the next entry may be
\* indented), nothing after the last one, and empty for no fields.
C9_UpdateFragment ==
    files[UpdateFile].exists =>
        Unindent(dynamic.update) =
            Join([i \in 1..Len(RequestFields) |-> <<update_entry(RequestFields[i].name)>>],
                 <<"\n">>)

\* C10: the type-detail list and the controller-body list are the entries of
\* the fields not named id, in order, exactly one newline between consecutive
\* entries, no blank line between them, nothing after the last entry,
\* wherever id sits.
C10_DetailLists ==
    /\ files[TypesFile].exists =>
        Unindent(dynamic.details) =
            Join([i \in 1..Len(RequestFields) |-> <<type_entry(RequestFields[i])>>],
                 <<"\n">>)
    /\ files[ControllersFile].exists =>
        Unindent(dynamic.controllers) =
            Join([i \in 1..Len(RequestFields) |-> <<body_entry(RequestFields[i].name)>>],
                 <<"\n">>)


====
